---- MODULE Spec2Model ----
(***************************************************************************)
(* xefind/find.py: availability report of processed XENONnT data.         *)
(* The model keeps the module-level tables of find.py (two of which the   *)
(* code mutates), a snapshot of the two database collections, the file    *)
(* read by --filename, and the outcome of the last call of each function. *)
(***************************************************************************)
EXTENDS Integers, Sequences, FiniteSets, TLC

VARIABLES
    contexts,          \* the "contexts" collection: documents in natural order
    runs,              \* the "runs" collection: documents in natural order
    LOCATIONS,         \* find.py:43, module-level list (mutated by the counter)
    SCIENCE_RUNS,      \* find.py:48, module-level dict of query dicts (mutated)
    data_type_global,  \* module global data_type: bound only by __main__ (find.py:277)
    file,              \* the --filename file: whether it exists, and its lines
    run_ids,           \* the run id list produced by the last input resolver
    args,              \* the command line: the selector given, and the --run_id value
    input,             \* outcome of the last read_run_ids_from_file / int(args.run_id)
    source_call,       \* outcome of the last get_runs_from_source call
    call,              \* outcome of the last check_runs_available call
    ncalls             \* calls made so far in this process

vars == <<contexts, runs, LOCATIONS, SCIENCE_RUNS, data_type_global, file,
          run_ids, args, input, source_call, call, ncalls>>

\* Python's None, and a name that is not bound.
None == "None"
Undefined == "<undefined>"

(***************************************************************************)
(* Bounds of the model.                                                    *)
(***************************************************************************)
\* Recommended contexts whose (name, tag) document is absent or lacks the hash.
MaxStale == 1
\* Run numbers in the runs collection are 1..MaxRun.
MaxRun == 3
\* Longest run id list handed to check_runs_available directly.
MaxIds == 3
\* check_runs_available calls in one process.
MaxCalls == 2
\* Lines of the --filename file.
MaxLines == 2
\* Characters of the --filename file (line ends aside) or of the --run_id value.
MaxChars == 3
\* Documents of the runs collection when a source query selects among them.
MaxSourceRuns == 1

(***************************************************************************)
(* Module-level tables, find.py:9-56.                                      *)
(***************************************************************************)
\* An insertion-ordered dict: the sequence of its (key, value) items.
RECOMMENDED ==
    << <<"xenonnt_v14", "2024.01.1">>,
       <<"xenonnt_v13", "2023.11.1">>,
       <<"xenonnt_v12", "2023.10.1">>,
       <<"xenonnt_v11", "2023.07.1">>,
       <<"xenonnt_v8",  "2022.06.3">> >>

\* A key such as 'straxen_version' is kept as its parts between underscores.
VersionKeys == << <<"straxen", "version">>, <<"strax", "version">>, <<"cutax", "version">> >>

VersionDict(straxen, strax, cutax) ==
    (<<"straxen", "version">> :> straxen) @@ (<<"strax", "version">> :> strax)
        @@ (<<"cutax", "version">> :> cutax)

ENV_VERSIONS ==
    ("xenonnt_v14" :> VersionDict("2.2.0", "1.6.0", "1.16.0")) @@
    ("xenonnt_v13" :> VersionDict("2.1.5", "1.5.4", "1.15.5")) @@
    ("xenonnt_v12" :> VersionDict("2.1.4", "1.5.4", "1.15.4")) @@
    ("xenonnt_v11" :> VersionDict("2.1.1", "1.5.2", "1.15.1"))

DefaultLocations == <<"UC_DALI_USERDISK", "UC_MIDWAY_USERDISK">>

EmptyDict == [k \in {} |-> None]

Range(s) == {s[i] : i \in 1..Len(s)}

(***************************************************************************)
(* The contexts collection.  A document has a name, a tag, the version     *)
(* fields it holds (a dict over a subset of VersionKeys) and its hashes (a *)
(* dict over data types).  find_one returns the first match in natural     *)
(* order, or None.                                                         *)
(***************************************************************************)
\* find_one over the matching documents in natural order: the first one as a
\* one-element sequence, or the empty sequence for Python's None.
find_one(matching) == IF matching = <<>> THEN <<>> ELSE <<Head(matching)>>

\* query = {'name': context, 'tag': environment}
TagQuery(context, environment, d) == d.name = context /\ d.tag = environment

\* query = {**versions, 'name': context}: every version field must be held and equal.
VersionQuery(context, versions, d) ==
    /\ d.name = context
    /\ \A k \in DOMAIN versions : k \in DOMAIN d.versions /\ d.versions[k] = versions[k]

\* res.get(k, 'UNKNOWN')
GetOr(dict, k, default) == IF k \in DOMAIN dict THEN dict[k] ELSE default

\* find.py:91-113.  Returns (lineage_hash, versions).
get_lineage_hash(context, environment, data_type) ==
    LET Q(d) == TagQuery(context, environment, d)
        res == find_one(SelectSeq(contexts, Q))
    IN  IF res = <<>> THEN [hash |-> None, versions |-> EmptyDict]
        ELSE [hash |-> GetOr(res[1].hashes, data_type, None),
              versions |-> [k \in Range(VersionKeys) |-> GetOr(res[1].versions, k, "UNKNOWN")]]

\* find.py:115-132.  data_type is not a parameter: the name resolves to the module
\* global, which only __main__ binds.  Returns the hash, or None, or raises.
get_lineae_hash_from_version(context, versions) ==
    IF data_type_global = Undefined THEN [raised |-> "NameError", hash |-> None, queried |-> FALSE]
    ELSE LET Q(d) == VersionQuery(context, versions, d)
             res == find_one(SelectSeq(contexts, Q))
         IN  IF res = <<>> THEN [raised |-> None, hash |-> None, queried |-> TRUE]
             ELSE IF data_type_global \notin DOMAIN res[1].hashes
                  THEN [raised |-> "KeyError", hash |-> None, queried |-> TRUE]
                  ELSE [raised |-> None, hash |-> res[1].hashes[data_type_global], queried |-> TRUE]

(***************************************************************************)
(* The runs collection.  A document has a number, tags, a source, a start  *)
(* date and its data entries (type, location, lineage_hash).               *)
(***************************************************************************)
Numbers(docs) == [i \in 1..Len(docs) |-> docs[i].number]

\* find.py:229-238: number $in run_ids, and one data entry matching all three fields.
DataQuery(ids, data_type, lineage_hash, location, d) ==
    /\ d.number \in Range(ids)
    /\ \E e \in d.data :
          /\ e.type = data_type
          /\ e.lineage_hash = lineage_hash
          /\ (location # None => e.location = location)

\* find.py:212-241: the numbers of the matching documents, in natural order.
get_runs_from_db(ids, data_type, lineage_hash, location) ==
    LET Q(d) == DataQuery(ids, data_type, lineage_hash, location, d)
    IN  Numbers(SelectSeq(runs, Q))

(***************************************************************************)
(* check_runs_available, find.py:157-210.                                  *)
(***************************************************************************)
\* Nearest integer to num/den, ties to even (num >= 0, den > 0).
RoundHalfEven(num, den) ==
    LET q == num \div den
        r == num % den
    IN  IF 2 * r < den THEN q
        ELSE IF 2 * r > den THEN q + 1
        ELSE IF q % 2 = 0 THEN q ELSE q + 1

\* The percentage cut to one decimal instead of rounded.
FormatPercent_truncated(n, total) ==
    LET tenths == (n * 1000) \div total
    IN  ToString(tenths \div 10) \o "." \o ToString(tenths % 10)

\* f"{n / total * 100:.1f}", on the exact quotient.
FormatPercent(n, total) ==
    LET tenths == RoundHalfEven(n * 1000, total)
    IN  ToString(tenths \div 10) \o "." \o ToString(tenths % 10)

\* find.py:202: f"{len(runs_location)} ({len(runs_location) / len(run_ids) * 100:.1f}%)"
FormatCell(n, total) == ToString(n) \o " (" \o FormatPercent(n, total) \o "%)"

\* find.py:189: {k.split('_')[0]: v for k, v in versions.items()}
StripVersionSuffix(versions) ==
    [s \in {k[1] : k \in DOMAIN versions} |->
        versions[CHOOSE k \in DOMAIN versions : k[1] = s]]

\* One function call, as the log of a check_runs_available call keeps it.
LogEntry(op, query, context, lineage_hash, location) ==
    [op |-> op, query |-> query, context |-> context,
     lineage_hash |-> lineage_hash, location |-> location]

\* find.py:200-202: one query and one cell per element of locations.
RECURSIVE LocationLoop(_, _, _, _, _, _, _)
LocationLoop(j, locations, ids, data_type, context, lineage_hash, acc) ==
    IF j > Len(locations) THEN acc
    ELSE LET location == locations[j]
             runs_location == get_runs_from_db(ids, data_type, lineage_hash, location)
             cell == FormatCell(Len(runs_location), Len(ids))
         IN  LocationLoop(j + 1, locations, ids, data_type, context, lineage_hash,
                 [doc |-> (location :> cell) @@ acc.doc,
                  log |-> Append(acc.log,
                      LogEntry("get_runs_from_db", "runs", context, lineage_hash, location))])

\* The versions of the primary lookup kept for the fallback.
FallbackVersions_db(context, versions) == versions

\* find.py:181: versions = ENV_VERSIONS[context], for a context the table holds.
FallbackVersions(context, versions) == ENV_VERSIONS[context]

\* find.py:184-207: the rest of one iteration, once lineage_hash and versions are set.
ContextBody(context, env_version, lineage_hash, versions, ids, data_type, extra_location, acc) ==
    LET locations == IF extra_location # None
                     THEN Append(acc.LOCATIONS, extra_location)
                     ELSE acc.LOCATIONS
        stripped == StripVersionSuffix(versions)
    IN  IF lineage_hash # None
        THEN LET doc == ("Context" :> context) @@ ("Environment" :> env_version)
                        @@ ("LineageHash" :> lineage_hash) @@ stripped
                 filled == LocationLoop(1, locations, ids, data_type, context, lineage_hash,
                               [doc |-> doc, log |-> acc.log])
             IN  [acc EXCEPT !.LOCATIONS = locations,
                             !.docs = Append(@, [row |-> filled.doc, total |-> Len(ids)]),
                             !.log = filled.log]
        ELSE [acc EXCEPT !.LOCATIONS = locations,
                         !.printed = Append(@, <<"Lineage hash not found for", context, env_version>>)]

\* The fallback taken whatever the primary lookup gave.
NeedsFallback_always(lineage_hash) == TRUE

\* find.py:180: if not lineage_hash.
NeedsFallback(lineage_hash) == lineage_hash = None

\* find.py:178-207: one iteration of the loop over RECOMMENDED.items().
ContextStep(i, ids, data_type, extra_location, acc) ==
    LET context == RECOMMENDED[i][1]
        env_version == RECOMMENDED[i][2]
        primary == get_lineage_hash(context, env_version, data_type)
        acc1 == [acc EXCEPT !.log = Append(@,
                     LogEntry("get_lineage_hash", "contexts", context, None, None))]
    IN  IF ~NeedsFallback(primary.hash)
        THEN ContextBody(context, env_version, primary.hash, primary.versions,
                         ids, data_type, extra_location, acc1)
        ELSE IF context \notin DOMAIN ENV_VERSIONS
        THEN [acc1 EXCEPT !.raised = "KeyError"]
        ELSE LET versions == FallbackVersions(context, primary.versions)
                 fallback == get_lineae_hash_from_version(context, versions)
                 acc2 == [acc1 EXCEPT !.log = Append(@,
                              LogEntry("get_lineae_hash_from_version",
                                       IF fallback.queried THEN "contexts" ELSE None,
                                       context, None, None))]
             IN  IF fallback.raised # None
                 THEN [acc2 EXCEPT !.raised = fallback.raised]
                 ELSE ContextBody(context, env_version, fallback.hash, versions,
                                  ids, data_type, extra_location, acc2)

RECURSIVE ContextLoop(_, _, _, _, _)
ContextLoop(i, ids, data_type, extra_location, acc) ==
    IF i > Len(RECOMMENDED) \/ acc.raised # None THEN acc
    ELSE ContextLoop(i + 1, ids, data_type, extra_location,
                     ContextStep(i, ids, data_type, extra_location, acc))

\* The empty list noticed only after the first lineage lookup.
check_runs_available_late(data_type, ids, extra_location) ==
    LET start == [called |-> TRUE, run_ids |-> ids, extra_location |-> extra_location,
                  before |-> LOCATIONS, LOCATIONS |-> LOCATIONS, docs |-> <<>>,
                  log |-> <<>>, printed |-> <<>>, raised |-> None]
        looked == [start EXCEPT !.log = <<LogEntry("get_lineage_hash", "contexts",
                                                   RECOMMENDED[1][1], None, None)>>]
    IN  IF ids = <<>> THEN [looked EXCEPT !.raised = "ValueError"]
        ELSE ContextLoop(1, ids, data_type, extra_location, start)

\* The whole call, as a record: the arguments, LOCATIONS before and after, the
\* local list docs, the calls made, what was printed and what was raised.  The
\* call returns DataFrame(docs) when it raises nothing.
check_runs_available(data_type, ids, extra_location) ==
    LET start == [called |-> TRUE, run_ids |-> ids, extra_location |-> extra_location,
                  before |-> LOCATIONS, LOCATIONS |-> LOCATIONS, docs |-> <<>>,
                  log |-> <<>>, printed |-> <<>>, raised |-> None]
    IN  IF ids = <<>> THEN [start EXCEPT !.raised = "ValueError"]
        ELSE ContextLoop(1, ids, data_type, extra_location, start)

(***************************************************************************)
(* Input resolution from text, find.py:135-155 and 298-301.  A string is   *)
(* the sequence of its characters; "sup2" stands for the one character     *)
(* U+00B2 (superscript two), a digit that is not a decimal digit.          *)
(***************************************************************************)
Alphabet == {"0", "5", "-", "sup2"}

\* str.isdecimal() of one character: the characters int() reads as digits.
IsDecimalChar(c) == c \in {"0", "5"}

\* str.isdigit() of one character: decimal digits and the other Unicode digits.
IsDigitChar(c) == IsDecimalChar(c) \/ c = "sup2"

DigitValue(c) == IF c = "5" THEN 5 ELSE 0

\* find.py:155: run_id.isdigit(), false for the empty string.
isdigit(str) == Len(str) > 0 /\ \A i \in 1..Len(str) : IsDigitChar(str[i])

AllDecimal(str) == Len(str) > 0 /\ \A i \in 1..Len(str) : IsDecimalChar(str[i])

RECURSIVE DecimalValue(_)
DecimalValue(str) ==
    IF str = <<>> THEN 0
    ELSE 10 * DecimalValue(SubSeq(str, 1, Len(str) - 1)) + DigitValue(str[Len(str)])

\* int(str) over the alphabet: an optional sign, then decimal digits only;
\* anything else raises ValueError.
int(str) ==
    IF AllDecimal(str) THEN [raised |-> None, value |-> DecimalValue(str)]
    ELSE IF Len(str) > 1 /\ str[1] = "-" /\ AllDecimal(Tail(str))
    THEN [raised |-> None, value |-> 0 - DecimalValue(Tail(str))]
    ELSE [raised |-> "ValueError", value |-> 0]

\* The filter keeping every line int() accepts.
KeepLine_parses(str) == int(str).raised = None

\* find.py:155: the filter of the comprehension.
KeepLine(str) == isdigit(str)

\* find.py:155: [int(run_id) for run_id in run_ids if run_id.isdigit()]
RECURSIVE Comprehension(_)
Comprehension(lines) ==
    IF lines = <<>> THEN [raised |-> None, value |-> <<>>]
    ELSE IF ~KeepLine(Head(lines)) THEN Comprehension(Tail(lines))
    ELSE LET first == int(Head(lines))
             rest == Comprehension(Tail(lines))
         IN  IF first.raised # None THEN [raised |-> first.raised, value |-> <<>>]
             ELSE IF rest.raised # None THEN rest
             ELSE [raised |-> None, value |-> <<first.value>> \o rest.value]

NoFile == [exists |-> FALSE, lines |-> <<>>]

\* find.py:135-155.  f.lines is file.read().splitlines().
read_run_ids_from_file(f) ==
    IF ~f.exists
    THEN [called |-> TRUE, raised |-> None, value |-> <<>>, printed |-> <<"File not found">>]
    ELSE Comprehension(f.lines) @@ [called |-> TRUE, printed |-> <<>>]

(***************************************************************************)
(* get_runs_from_source, find.py:74-89, and the queries of SCIENCE_RUNS.   *)
(* A query dict maps a key to a condition: <<"eq", v>>, <<"lte", v>>, or   *)
(* under '$or' the list of alternative query dicts.  Dates are yyyymmdd.   *)
(***************************************************************************)
CutoffDate == 20220801

InitialScienceRuns ==
    ("sr0" :> ("$or" :> <<"or",
                  << ("tags.name" :> <<"eq", "_sr0">>),
                     ("source" :> <<"eq", "th-232">>) @@ ("start" :> <<"lte", CutoffDate>>) >> >>))
    @@ ("sr0_ted" :> ("tags.name" :> <<"eq", "_sr0_ted">>))
    @@ ("sr1" :> ("tags.name" :> <<"eq", "_sr1_preliminary">>))

\* One condition of a query dict on one field of a run document.
CondHolds(key, cond, d) ==
    CASE key = "tags.name" -> cond[2] \in d.tags
      [] key = "source" -> d.source = cond[2]
      [] key = "start" -> d.start <= cond[2]
      [] OTHER -> FALSE

MatchesAll(query, d) == \A k \in DOMAIN query : CondHolds(k, query[k], d)

\* A query dict matches when all its keys do; '$or' when one alternative does.
Matches(query, d) ==
    \A k \in DOMAIN query :
        IF k = "$or"
        THEN \E i \in 1..Len(query[k][2]) : MatchesAll(query[k][2][i], d)
        ELSE CondHolds(k, query[k], d)

\* The source set only where the dict has none yet (setdefault).
SetSource_setdefault(query, source) == query @@ ("source" :> <<"eq", source>>)

\* find.py:85-86: query = SCIENCE_RUNS[science_run]; query['source'] = source.
\* The dict is the table's own entry, not a copy of it.
SetSource(query, source) == ("source" :> <<"eq", source>>) @@ query

\* find.py:74-89: the query issued, the table as the call leaves it, the numbers returned.
get_runs_from_source(science_run, source) ==
    LET query == SetSource(SCIENCE_RUNS[science_run], source)
        Q(d) == Matches(query, d)
    IN  [called |-> TRUE, science_run |-> science_run, source |-> source,
         before |-> SCIENCE_RUNS, query |-> query,
         SCIENCE_RUNS |-> [SCIENCE_RUNS EXCEPT ![science_run] = query],
         returned |-> Numbers(SelectSeq(runs, Q))]

(***************************************************************************)
(* Database snapshots the model starts from.                               *)
(***************************************************************************)
\* The positional data_type argument of every call.
DataType == "peaklets"

\* The version fields of a context document: those of ENV_VERSIONS where the
\* table has the context, a fixed triple otherwise.
TrueVersions(context) ==
    IF context \in DOMAIN ENV_VERSIONS THEN ENV_VERSIONS[context]
    ELSE VersionDict("1.7.1", "1.2.2", "1.11.1")

\* The document of recommended context i under its recommended tag, if any.
TagDocs(i, kind) ==
    LET base == [name |-> RECOMMENDED[i][1], tag |-> RECOMMENDED[i][2],
                 versions |-> TrueVersions(RECOMMENDED[i][1]),
                 hashes |-> (DataType :> "abc")]
    IN  CASE kind = "hash" -> <<base>>
          [] kind = "nohash" -> <<[base EXCEPT !.hashes = ("event_info" :> "zzz")]>>
          [] kind = "bare" -> <<[base EXCEPT !.hashes = ("event_info" :> "zzz"),
                                             !.versions = EmptyDict]>>
          [] kind = "absent" -> <<>>

\* A document of the same context and versions under an earlier tag, if any.
OldDocs(i, kind) ==
    LET base == [name |-> RECOMMENDED[i][1], tag |-> "2021.12.1",
                 versions |-> TrueVersions(RECOMMENDED[i][1]),
                 hashes |-> (DataType :> "def")]
    IN  CASE kind = "hash" -> <<base>>
          [] kind = "nohash" -> <<[base EXCEPT !.hashes = ("event_info" :> "zzz")]>>
          [] kind = "absent" -> <<>>

StaleKinds == {"nohash", "bare", "absent"} \X {"hash", "nohash", "absent"}

RECURSIVE BuildContexts(_, _)
BuildContexts(i, stale) ==
    IF i > Len(RECOMMENDED) THEN <<>>
    ELSE (IF i \in DOMAIN stale
          THEN OldDocs(i, stale[i][2]) \o TagDocs(i, stale[i][1])
          ELSE OldDocs(i, "hash") \o TagDocs(i, "hash"))
         \o BuildContexts(i + 1, stale)

\* Every recommended context has its document and hash, but for at most MaxStale.
ContextDBs ==
    UNION {{BuildContexts(1, stale) : stale \in [S -> StaleKinds]} :
           S \in {T \in SUBSET (1..Len(RECOMMENDED)) : Cardinality(T) <= MaxStale}}

RunNumbers == 1..MaxRun

RunDoc(number, tags, source, start, data) ==
    [number |-> number, tags |-> tags, source |-> source, start |-> start, data |-> data]

DataEntry(type, lineage_hash, location) ==
    [type |-> type, lineage_hash |-> lineage_hash, location |-> location]

ExtraLocation == "SDSC_USERDISK"

\* What one run may hold of the data type.
DataChoices ==
    { {},
      {DataEntry(DataType, "abc", "UC_DALI_USERDISK"),
       DataEntry(DataType, "abc", ExtraLocation)},
      {DataEntry(DataType, "abc", "UC_MIDWAY_USERDISK")},
      {DataEntry(DataType, "def", "UC_DALI_USERDISK")} }

RunDataDBs ==
    {[n \in RunNumbers |-> RunDoc(n, {}, "none", 0, data[n])] :
        data \in [RunNumbers -> DataChoices]}

RECURSIVE SeqsUpTo(_, _)
SeqsUpTo(S, n) ==
    IF n = 0 THEN {<<>>}
    ELSE LET shorter == SeqsUpTo(S, n - 1)
         IN  shorter \cup {Append(q, x) : q \in shorter, x \in S}

IdLists == SeqsUpTo(RunNumbers, MaxIds)

\* The empty list and the lists of the --run_id mode.
SingleIdLists == {<<>>} \cup {<<n>> : n \in RunNumbers}

NoCall == [called |-> FALSE, run_ids |-> <<>>, extra_location |-> None,
           before |-> <<>>, LOCATIONS |-> <<>>, docs |-> <<>>, log |-> <<>>,
           printed |-> <<>>, raised |-> None]

NoArgs == [selector |-> None, run_id |-> <<>>]
NoInput == [called |-> FALSE, raised |-> None, value |-> <<>>, printed |-> <<>>]
NoSourceCall == [called |-> FALSE, science_run |-> None, source |-> None,
                 before |-> <<>>, query |-> <<>>, SCIENCE_RUNS |-> <<>>, returned |-> <<>>]

(***************************************************************************)
(* check_runs_available(data_type, ids, extra_location), called by the     *)
(* main script or by an importing module.                                  *)
(***************************************************************************)
CheckRunsAvailable(ids, extra_location) ==
    /\ ncalls < MaxCalls
    /\ call' = check_runs_available(DataType, ids, extra_location)
    /\ LOCATIONS' = call'.LOCATIONS
    /\ ncalls' = ncalls + 1
    /\ UNCHANGED <<contexts, runs, SCIENCE_RUNS, data_type_global, file, run_ids,
                   args, input, source_call>>

InitCommon ==
    /\ LOCATIONS = DefaultLocations
    /\ SCIENCE_RUNS = InitialScienceRuns
    /\ run_ids = <<>>
    /\ input = NoInput
    /\ source_call = NoSourceCall
    /\ call = NoCall
    /\ ncalls = 0

\* Lineage resolution: the contexts collection varies, the run lists are short.
Init ==
    /\ InitCommon
    /\ file = NoFile
    /\ args = NoArgs
    /\ contexts \in ContextDBs
    /\ runs = [n \in RunNumbers |-> RunDoc(n, {}, "none", 0,
                   {DataEntry(DataType, "abc", "UC_DALI_USERDISK")})]
    /\ data_type_global \in {Undefined, DataType}

Next ==
    \E ids \in SingleIdLists, extra_location \in {None, ExtraLocation} :
        CheckRunsAvailable(ids, extra_location)

Spec == Init /\ [][Next]_vars

\* Availability counting: the runs collection and the run id list vary.
InitCount ==
    /\ InitCommon
    /\ file = NoFile
    /\ args = NoArgs
    /\ contexts = BuildContexts(1, <<>>)
    /\ runs \in RunDataDBs
    /\ data_type_global = DataType

NextCount ==
    \E ids \in IdLists, extra_location \in {None, ExtraLocation} :
        ncalls = 0 /\ CheckRunsAvailable(ids, extra_location)

SpecCount == InitCount /\ [][NextCount]_vars

(***************************************************************************)
(* The main script with --filename or --run_id, find.py:283-303: resolve   *)
(* the run ids from text, then call check_runs_available once.             *)
(***************************************************************************)
RECURSIVE StringsOfLen(_)
StringsOfLen(n) ==
    IF n = 0 THEN {<<>>}
    ELSE {Append(str, c) : str \in StringsOfLen(n - 1), c \in Alphabet}

\* The files of at most k lines and c characters.
RECURSIVE FileLines(_, _)
FileLines(k, c) ==
    IF k = 0 THEN {<<>>}
    ELSE {<<>>} \cup UNION {{<<line>> \o rest : line \in StringsOfLen(n),
                                                rest \in FileLines(k - 1, c - n)} :
                            n \in 0..c}

Files == {NoFile} \cup {[exists |-> TRUE, lines |-> f] : f \in FileLines(MaxLines, MaxChars)}

RunIdArgs == UNION {StringsOfLen(n) : n \in 1..MaxChars}

\* find.py:285.
ReadRunIdsFromFile ==
    /\ args.selector = "filename"
    /\ ~input.called
    /\ input' = read_run_ids_from_file(file)
    /\ run_ids' = input'.value
    /\ UNCHANGED <<contexts, runs, LOCATIONS, SCIENCE_RUNS, data_type_global, file,
                   args, source_call, call, ncalls>>

\* find.py:301: run_ids = [int(args.run_id)].
ParseRunId ==
    /\ args.selector = "run_id"
    /\ ~input.called
    /\ LET parsed == int(args.run_id)
       IN  input' = [called |-> TRUE, raised |-> parsed.raised,
                     value |-> IF parsed.raised = None THEN <<parsed.value>> ELSE <<>>,
                     printed |-> <<>>]
    /\ run_ids' = input'.value
    /\ UNCHANGED <<contexts, runs, LOCATIONS, SCIENCE_RUNS, data_type_global, file,
                   args, source_call, call, ncalls>>

\* find.py:286 and 302, reached when the resolver raised nothing.
CheckResolved(extra_location) ==
    /\ input.called
    /\ input.raised = None
    /\ ncalls = 0
    /\ CheckRunsAvailable(run_ids, extra_location)

InitInput ==
    /\ InitCommon
    /\ contexts = BuildContexts(1, <<>>)
    /\ runs = << RunDoc(0, {}, "none", 0, {DataEntry(DataType, "abc", "UC_DALI_USERDISK")}),
                 RunDoc(5, {}, "none", 0, {DataEntry(DataType, "abc", "UC_MIDWAY_USERDISK")}) >>
    /\ data_type_global = DataType
    /\ \/ file \in Files /\ args = [selector |-> "filename", run_id |-> <<>>]
       \/ file = NoFile /\ args \in {[selector |-> "run_id", run_id |-> r] : r \in RunIdArgs}

NextInput ==
    \/ ReadRunIdsFromFile
    \/ ParseRunId
    \/ \E extra_location \in {None, ExtraLocation} : CheckResolved(extra_location)

SpecInput == InitInput /\ [][NextInput]_vars

(***************************************************************************)
(* The source queries of the main script's loop, find.py:291-294.          *)
(***************************************************************************)
ScienceRunNames == {"sr0", "sr0_ted", "sr1"}
Sources == {"th-232", "none"}

SourceRunDBs ==
    {[n \in 1..MaxSourceRuns |-> RunDoc(n, d[n][1], d[n][2], d[n][3], {})] :
        d \in [1..MaxSourceRuns ->
                 {{}, {"_sr0"}, {"_sr0_ted"}, {"_sr1_preliminary"}}
                 \X Sources \X {CutoffDate, CutoffDate + 1}]}

GetRunsFromSource(science_run, source) ==
    /\ source_call' = get_runs_from_source(science_run, source)
    /\ SCIENCE_RUNS' = source_call'.SCIENCE_RUNS
    /\ run_ids' = source_call'.returned
    /\ UNCHANGED <<contexts, runs, LOCATIONS, data_type_global, file, args, input,
                   call, ncalls>>

InitSource ==
    /\ InitCommon
    /\ file = NoFile
    /\ args = [selector |-> "source", run_id |-> <<>>]
    /\ contexts = BuildContexts(1, <<>>)
    /\ runs \in SourceRunDBs
    /\ data_type_global = DataType

NextSource ==
    \E science_run \in ScienceRunNames, source \in Sources :
        GetRunsFromSource(science_run, source)

SpecSource == InitSource /\ [][NextSource]_vars

(***************************************************************************)
(* What the claims speak of, read off the last check_runs_available call.  *)
(***************************************************************************)
ContextNames == {RECOMMENDED[i][1] : i \in 1..Len(RECOMMENDED)}

\* The rows of the report for one context.
RowsOf(context) == {k \in 1..Len(call.docs) : call.docs[k].row["Context"] = context}

\* The calls of one function for one context, as positions in the log.
CallsOf(op, context) ==
    {k \in 1..Len(call.log) : call.log[k].op = op /\ call.log[k].context = context}

\* The call returned its report.
Returned == call.called /\ call.raised = None

\* The (name, tag) lookup of recommended context i yields a hash.
PrimaryHash(i) == get_lineage_hash(RECOMMENDED[i][1], RECOMMENDED[i][2], DataType).hash

\* The first document of context i that carries the version triple of ENV_VERSIONS.
VersionMatches(i) ==
    LET context == RECOMMENDED[i][1]
    IN  IF context \notin DOMAIN ENV_VERSIONS THEN {}
        ELSE LET hits == {k \in 1..Len(contexts) :
                             /\ contexts[k].name = context
                             /\ contexts[k].versions = ENV_VERSIONS[context]}
             IN  {k \in hits : \A other \in hits : k <= other}

\* The version-triple lookup of context i yields a hash.
FallbackYields(i) == \E k \in VersionMatches(i) : DataType \in DOMAIN contexts[k].hashes

Unresolvable(i) == PrimaryHash(i) = None /\ ~FallbackYields(i)

Notice(i) == <<"Lineage hash not found for", RECOMMENDED[i][1], RECOMMENDED[i][2]>>

\* C1: a context that neither lookup resolves contributes no row, has its
\* 'Lineage hash not found' notice printed, does not stop the contexts after it
\* from being processed, and the call returns normally.
C1_UnresolvedContextIsSkipped ==
    (call.called /\ call.run_ids # <<>>) =>
        \A i \in 1..Len(RECOMMENDED) :
            Unresolvable(i) =>
                /\ call.raised = None
                /\ RowsOf(RECOMMENDED[i][1]) = {}
                /\ \E k \in 1..Len(call.printed) : call.printed[k] = Notice(i)
                /\ \A j \in i..Len(RECOMMENDED) :
                       CallsOf("get_lineage_hash", RECOMMENDED[j][1]) # {}

\* C2: every resolved context counts the two default locations and the extra
\* one at most once (2 or 3 count queries), and the call leaves LOCATIONS as the
\* two defaults it found.
C2_LocationsAreTheDefaultsPlusExtra ==
    (call.called /\ call.run_ids # <<>>) =>
        /\ call.before = DefaultLocations
        /\ LOCATIONS = call.before
        /\ \A context \in ContextNames :
               RowsOf(context) # {} =>
                   Cardinality(CallsOf("get_runs_from_db", context))
                       = (IF call.extra_location = None THEN 2 ELSE 3)

\* C3: a call with an empty run id list raises ValueError, and has issued no
\* query on the contexts or the runs collection.
C3_EmptyRunIdsRaiseBeforeAnyQuery ==
    (call.called /\ call.run_ids = <<>>) =>
        /\ call.raised = "ValueError"
        /\ \A k \in 1..Len(call.log) : call.log[k].query = None
        /\ call.docs = <<>>

\* An empty list handed over after an earlier call has left LOCATIONS longer.
C3_Witness ==
    /\ call.called
    /\ call.run_ids = <<>>
    /\ call.raised = "ValueError"
    /\ Len(call.before) > Len(DefaultLocations)

\* The run documents whose number is among the run ids and that hold the data
\* type under the lineage hash at the location.
Available(ids, lineage_hash, location) ==
    {k \in 1..Len(runs) :
        /\ runs[k].number \in Range(ids)
        /\ DataEntry(DataType, lineage_hash, location) \in runs[k].data}

\* cell is "<n> (<p>%)" with p the one-decimal numeral nearest to n / total * 100.
\* (A numeral that near is one of the two tenths around the quotient.)
IsCellOf(cell, n, total) ==
    \E tenths \in {(1000 * n) \div total, (1000 * n) \div total + 1} :
        /\ 2 * (total * tenths - 1000 * n) <= total
        /\ 2 * (1000 * n - total * tenths) <= total
        /\ cell = ToString(n) \o " (" \o ToString(tenths \div 10) \o "."
                      \o ToString(tenths % 10) \o "%)"

\* C4: the cell of every counted location of every row is "<n> (<p>%)", n the
\* number of run documents the membership query matches, p = n / total * 100 to
\* one decimal, total the length of the run id list, 0 <= n <= total; 2 of
\* [1,2,3] reads "2 (66.7%)".
C4_CellIsCountAndPercentage ==
    call.called =>
        \A k \in 1..Len(call.docs) :
            LET row == call.docs[k].row
                total == call.docs[k].total
            IN  /\ total = Len(call.run_ids)
                /\ \A j \in CallsOf("get_runs_from_db", row["Context"]) :
                       LET location == call.log[j].location
                           n == Cardinality(Available(call.run_ids, row["LineageHash"], location))
                       IN  /\ call.log[j].lineage_hash = row["LineageHash"]
                           /\ location \in DOMAIN row
                           /\ 0 <= n /\ n <= total
                           /\ IsCellOf(row[location], n, total)
                           /\ (n = 2 /\ total = 3) => row[location] = "2 (66.7%)"

C4_Witness ==
    /\ Returned
    /\ call.run_ids = <<1, 2, 3>>
    /\ \E k \in 1..Len(call.docs) :
           /\ call.docs[k].row["UC_DALI_USERDISK"] = "2 (66.7%)"
           /\ call.docs[k].row["UC_MIDWAY_USERDISK"] = "0 (0.0%)"

\* The integers of the lines that int() parses, in file order.
RECURSIVE ParsedLines(_)
ParsedLines(lines) ==
    IF lines = <<>> THEN <<>>
    ELSE (IF int(Head(lines)).raised = None THEN <<int(Head(lines)).value>> ELSE <<>>)
         \o ParsedLines(Tail(lines))

\* C5: for an existing file read_run_ids_from_file never raises, and returns the
\* integers of exactly the lines that parse as integers, in file order,
\* duplicates kept.
C5_FileLinesThatParseAreKept ==
    (input.called /\ args.selector = "filename" /\ file.exists) =>
        /\ input.raised = None
        /\ input.value = ParsedLines(file.lines)

\* The contexts of the report that the fallback lookup resolved.
ResolvedByFallback(context) ==
    /\ RowsOf(context) # {}
    /\ CallsOf("get_lineae_hash_from_version", context) # {}

\* C6: the row of a context resolved only through the fallback lookup shows the
\* straxen, strax and cutax versions of ENV_VERSIONS for that context.
C6_FallbackRowShowsTableVersions ==
    call.called =>
        \A context \in ContextNames :
            ResolvedByFallback(context) =>
                \A k \in RowsOf(context) :
                    LET row == call.docs[k].row
                    IN  /\ {"straxen", "strax", "cutax"} \subseteq DOMAIN row
                        /\ row["straxen"] = ENV_VERSIONS[context][<<"straxen", "version">>]
                        /\ row["strax"] = ENV_VERSIONS[context][<<"strax", "version">>]
                        /\ row["cutax"] = ENV_VERSIONS[context][<<"cutax", "version">>]
                        /\ DOMAIN row \cap {"straxen_version", "strax_version",
                                             "cutax_version"} = {}

\* A returned report with a fallback row whose database document under the
\* recommended tag carries other version fields than the table.
C6_Witness ==
    /\ Returned
    /\ \E i \in 1..Len(RECOMMENDED) :
           /\ ResolvedByFallback(RECOMMENDED[i][1])
           /\ \E k \in 1..Len(contexts) :
                  /\ contexts[k].name = RECOMMENDED[i][1]
                  /\ contexts[k].tag = RECOMMENDED[i][2]
                  /\ contexts[k].versions # ENV_VERSIONS[RECOMMENDED[i][1]]

\* C7: a context whose primary lookup yields a hash never has the fallback
\* lookup invoked, and every location count of it uses the primary hash.
C7_PrimaryHashSkipsFallback ==
    call.called =>
        \A i \in 1..Len(RECOMMENDED) :
            PrimaryHash(i) # None =>
                /\ CallsOf("get_lineae_hash_from_version", RECOMMENDED[i][1]) = {}
                /\ \A j \in CallsOf("get_runs_from_db", RECOMMENDED[i][1]) :
                       call.log[j].lineage_hash = PrimaryHash(i)
                /\ \A k \in RowsOf(RECOMMENDED[i][1]) :
                       call.docs[k].row["LineageHash"] = PrimaryHash(i)

\* A returned report with a context resolved by tag, counted, while a document
\* of the same version triple holds another hash.
C7_Witness ==
    /\ Returned
    /\ \E i \in 1..Len(RECOMMENDED) :
           /\ PrimaryHash(i) # None
           /\ CallsOf("get_runs_from_db", RECOMMENDED[i][1]) # {}
           /\ \E k \in VersionMatches(i) :
                  /\ DataType \in DOMAIN contexts[k].hashes
                  /\ contexts[k].hashes[DataType] # PrimaryHash(i)

\* C8: every run id that reaches check_runs_available is a positive integer.
C8_RunIdsArePositive ==
    call.called => \A k \in 1..Len(call.run_ids) : call.run_ids[k] > 0

\* C8, amended: a run id that reaches check_runs_available from the file is a
\* non-negative integer, zero included; the --run_id value reaches it as the
\* integer it parses to, whatever its sign.
C8_FileRunIdsAreNonNegative ==
    call.called =>
        /\ args.selector = "filename" =>
               \A k \in 1..Len(call.run_ids) : call.run_ids[k] >= 0
        /\ args.selector = "run_id" =>
               /\ int(args.run_id).raised = None
               /\ call.run_ids = <<int(args.run_id).value>>

C8_Witness ==
    /\ call.called
    /\ args.selector = "filename"
    /\ \E k \in 1..Len(call.run_ids) : call.run_ids[k] = 0
    /\ Len(file.lines) = MaxLines

\* The fixed predicate of a science run, find.py:48-56.
FixedPredicate(science_run, d) ==
    CASE science_run = "sr0" ->
            \/ "_sr0" \in d.tags
            \/ d.source = "th-232" /\ d.start <= CutoffDate
      [] science_run = "sr0_ted" -> "_sr0_ted" \in d.tags
      [] science_run = "sr1" -> "_sr1_preliminary" \in d.tags

\* C9: the query a get_runs_from_source call issues is the fixed predicate of
\* its science run and source = its source, whatever calls came before; the
\* predicates of the table are those it started with.
C9_SourceQueryIsPredicateAndSource ==
    source_call.called =>
        LET sr == source_call.science_run
            src == source_call.source
        IN  /\ source_call.query = ("source" :> <<"eq", src>>) @@ InitialScienceRuns[sr]
            /\ source_call.returned =
                   Numbers(SelectSeq(runs, LAMBDA d : FixedPredicate(sr, d) /\ d.source = src))
            /\ \A other \in ScienceRunNames :
                   /\ DOMAIN SCIENCE_RUNS[other] \subseteq
                          DOMAIN InitialScienceRuns[other] \cup {"source"}
                   /\ \A key \in DOMAIN InitialScienceRuns[other] :
                          SCIENCE_RUNS[other][key] = InitialScienceRuns[other][key]

\* An sr0 / th-232 call, after an sr0 call for another source, that selects a run
\* by the second branch of the OR only.
C9_Witness ==
    /\ source_call.called
    /\ source_call.science_run = "sr0"
    /\ source_call.source = "th-232"
    /\ "source" \in DOMAIN source_call.before["sr0"]
    /\ source_call.before["sr0"]["source"] = <<"eq", "none">>
    /\ \E k \in 1..Len(runs) :
           /\ runs[k].number \in Range(source_call.returned)
           /\ "_sr0" \notin runs[k].tags

\* C10: when every run id of the list has a data entry of the data type, the
\* row's lineage hash and a location, the cell of that location reads the
\* 'Total Checked' count and 100.0%.
C10_AllAvailableReadsHundredPercent ==
    (call.called /\ call.run_ids # <<>>) =>
        \A k \in 1..Len(call.docs) :
            LET row == call.docs[k].row
                total == call.docs[k].total
            IN  \A j \in CallsOf("get_runs_from_db", row["Context"]) :
                    LET location == call.log[j].location
                    IN  (\A id \in Range(call.run_ids) :
                            \E d \in Range(runs) :
                                /\ d.number = id
                                /\ DataEntry(DataType, row["LineageHash"], location) \in d.data)
                        => row[location] = ToString(total) \o " (100.0%)"

====
